---- MODULE Spec2Model ----
(* Verification model of experiments/mnist_experiment/experiment_manager.py:  *)
(* the MnistExperiment hooks (forward_pass, get_metrics_dict, print_test_log, *)
(* additional_testing, save_input_and_recons, _parse_args and                 *)
(* _make_run_description).                                                    *)
(* Python strings are sequences of one-character strings, a dict is the       *)
(* sequence of its items in insertion order, a tensor is a nested sequence.   *)
(* Real numbers are fixed-point integers (thousandths of a nat) and batch     *)
(* means are exact fractions [num, den].                                      *)
EXTENDS Integers, Sequences, FiniteSets, TLC

VARIABLES args, argv, run_description, x, out, results, metrics_dict,
          summaries, stdout, global_step, dataloaders, img_folder, files, call

vars == <<args, argv, run_description, x, out, results, metrics_dict,
          summaries, stdout, global_step, dataloaders, img_folder, files, call>>

\* ---------------------------------------------------------------- bounds
\* largest batch handed to forward_pass by the training loop
MaxN == 2
\* the training loop draws its images among Img(0) .. Img(MaxImg)
MaxImg == 3
\* latent dimension of qz and pz
NLatent == 2
\* the noise of a model call ranges over 0 .. MaxNoise
MaxNoise == 2

\* image shape [C, H, W] of the batches the data loaders yield
ImageShape == <<1, 2, 3>>
NChan == ImageShape[1]
Height == ImageShape[2]
Width == ImageShape[3]

\* Python's None, and a value that is present
None == <<>>
Some(v) == <<v>>

\* ---------------------------------------------------------------- text
Digit == <<"0", "1", "2", "3", "4", "5", "6", "7", "8", "9">>

RECURSIVE Digits(_)
Digits(n) == IF n < 10 THEN <<Digit[n + 1]>>
             ELSE Digits(n \div 10) \o <<Digit[(n % 10) + 1]>>

\* str(v) / '{}'.format(v) of an int
Str(v) == IF v < 0 THEN <<"-">> \o Digits(0 - v) ELSE Digits(v)

\* '{}'.format(o) of an int that may be None
StrOpt(o) == IF o = None THEN <<"N", "o", "n", "e">> ELSE Str(o[1])

\* s.find(sub) > -1
Contains(s, sub) ==
    \E i \in 1..(Len(s) - Len(sub) + 1) : SubSeq(s, i, i + Len(sub) - 1) = sub

RECURSIVE SumSeq(_)
SumSeq(s) == IF s = <<>> THEN 0 ELSE Head(s) + SumSeq(Tail(s))

\* ---------------------------------------------------------------- tensors
\* a 0-dim tensor holding the fraction q, and tensor.item()
Scalar(q) == [shape |-> <<>>, data |-> q]
Item(t) == t.data

\* tensor.mean() of a 1-dim tensor, as an exact fraction
Mean(t) == Scalar([num |-> SumSeq(t), den |-> Len(t)])

\* unary minus of a 0-dim tensor
Neg(t) == Scalar([num |-> 0 - t.data.num, den |-> t.data.den])

\* tensor.sum((1, 2, 3)) of one example [C, H, W]
Sum3(img) ==
    SumSeq([c \in 1..Len(img) |->
        SumSeq([h \in 1..Len(img[c]) |-> SumSeq(img[c][h])])])

\* Image number j: pixel p (row-major) is bit p of j
Img(j) ==
    [c \in 1..NChan |-> [h \in 1..Height |-> [w \in 1..Width |->
        LET p == ((c - 1) * Height + (h - 1)) * Width + (w - 1)
        IN (j \div (2 ^ p)) % 2]]]

\* ---------------------------------------------------------------- model
\* ln(l/4) for l = 1, 2, 3 in thousandths
LogQuarter == <<0 - 1386, 0 - 693, 0 - 288>>

\* Bernoulli(mean).log_prob(v) for one pixel; the mean is level/4
BernoulliLogProb(level, v) ==
    IF v = 1 THEN LogQuarter[level] ELSE LogQuarter[4 - level]

\* Bernoulli(out['mean']).log_prob(x) for one example
LogProb(mean, img) ==
    [c \in 1..Len(img) |-> [h \in 1..Len(img[c]) |->
        [w \in 1..Len(img[c][h]) |-> BernoulliLogProb(mean[c][h][w], img[c][h][w])]]]

\* ln(scale) in thousandths for the scales the encoder produces
LogScale == <<0, 693>>

\* kl_divergence(Normal(loc, scale), Normal(0, 1)) for one latent coordinate
KlNormal(loc, scale) ==
    500 * (scale * scale + loc * loc - 1) - LogScale[scale]

\* kl_divergence(out['qz'], model.pz) for one example: one term per latent
KlDivergence(qz) ==
    [d \in 1..Len(qz.loc) |-> KlNormal(qz.loc[d], qz.scale[d])]

\* The noise of one model call: a drives encoder and decoder, b the output sample
Noise == [a : 0..MaxNoise, b : 0..1]

\* model(x): decoder means strictly inside (0,1), a sample, the posterior qz
ModelCall(xb, z) ==
    [mean |-> [i \in 1..Len(xb) |-> [c \in 1..NChan |-> [h \in 1..Height |->
                 [w \in 1..Width |-> 1 + ((2 * xb[i][c][h][w] + z.a + w) % 3)]]]],
     sample |-> [i \in 1..Len(xb) |-> [c \in 1..NChan |-> [h \in 1..Height |->
                 [w \in 1..Width |->
                    IF z.b = 1 /\ (h + w) % 2 = 0 THEN 1 - xb[i][c][h][w]
                    ELSE xb[i][c][h][w]]]]],
     qz |-> [i \in 1..Len(xb) |->
                [loc |-> [d \in 1..NLatent |-> ((Sum3(xb[i]) + d * z.a) % 3) - 1],
                 scale |-> [d \in 1..NLatent |-> 1 + ((z.a + d + i) % 2)]]]]

\* variant: the KL term added instead of subtracted
ElboSepPlus(log_likelihood, kl) ==
    [i \in 1..Len(log_likelihood) |-> log_likelihood[i] + kl[i]]

\* elbo_sep = log_likelihood - kl
ElboSep(log_likelihood, kl) ==
    [i \in 1..Len(log_likelihood) |-> log_likelihood[i] - kl[i]]

\* forward_pass(model, x), given what model(x) returned
forward_pass(xb, mo) ==
    LET log_likelihood == [i \in 1..Len(xb) |-> Sum3(LogProb(mo.mean[i], xb[i]))]
        kl == [i \in 1..Len(xb) |-> SumSeq(KlDivergence(mo.qz[i]))]
        elbo_sep == ElboSep(log_likelihood, kl)
        elbo == Mean(elbo_sep)
        loss == Neg(elbo)
    IN [out_sample |-> mo.sample,
        out_mean |-> mo.mean,
        loss |-> loss,
        elbo_sep |-> elbo_sep,
        elbo |-> elbo,
        recons |-> Neg(Mean(log_likelihood)),
        kl |-> Mean(kl)]

KeyLoss == <<"l", "o", "s", "s", "/", "l", "o", "s", "s">>
KeyElbo == <<"e", "l", "b", "o", "/", "e", "l", "b", "o">>
KeyRecons == <<"e", "l", "b", "o", "/", "r", "e", "c", "o", "n", "s">>
KeyKl == <<"e", "l", "b", "o", "/", "k", "l">>

\* variant: the reconstruction and KL entries exchanged
GetMetricsSwapped(r) ==
    << [k |-> KeyLoss, v |-> Item(r.loss)],
       [k |-> KeyElbo, v |-> Item(r.elbo)],
       [k |-> KeyRecons, v |-> Item(r.kl)],
       [k |-> KeyKl, v |-> Item(r.recons)] >>

\* get_metrics_dict(results)
get_metrics_dict(r) ==
    << [k |-> KeyLoss, v |-> Item(r.loss)],
       [k |-> KeyElbo, v |-> Item(r.elbo)],
       [k |-> KeyRecons, v |-> Item(r.recons)],
       [k |-> KeyKl, v |-> Item(r.kl)] >>

\* dict helpers: key in d, d[key]
HasKey(d, key) == \E i \in 1..Len(d) : d[i].k = key
Get(d, key) == d[CHOOSE i \in 1..Len(d) : d[i].k = key].v

\* ---------------------------------------------------------------- state
NoCall == [op |-> "none", n |-> 0, batch |-> 0, fname |-> <<>>, error |-> "none", msg |-> <<>>,
           fwd_ran |-> FALSE, prior_drawn |-> 0, writes |-> <<>>, out_sample |-> <<>>]

Idle ==
    /\ args = None
    /\ argv = None
    /\ run_description = None
    /\ x = None
    /\ out = None
    /\ results = None
    /\ metrics_dict = None
    /\ summaries = None
    /\ stdout = <<>>
    /\ global_step = 0
    /\ dataloaders = None
    /\ img_folder = None
    /\ files = <<>>
    /\ call = NoCall

\* ------------------------------------------------- forward pass and metrics
Batches == UNION {[1..n -> {Img(j) : j \in 0..MaxImg}] : n \in 1..MaxN}

Init == Idle

\* one iteration of the driver's loop: forward_pass(model, x) on a batch, ...
ForwardPass ==
    /\ call.op = "none"
    /\ \E xb \in Batches, z \in Noise :
        /\ x' = Some(xb)
        /\ out' = Some(ModelCall(xb, z))
        /\ results' = Some(forward_pass(xb, ModelCall(xb, z)))
        /\ call' = [NoCall EXCEPT !.op = "forward_pass", !.fwd_ran = TRUE]
        /\ UNCHANGED <<args, argv, run_description, metrics_dict, summaries, stdout,
                       global_step, dataloaders, img_folder, files>>

\* ... then get_metrics_dict(results) on its result, ...
GetMetricsDict ==
    /\ call.op = "forward_pass"
    /\ metrics_dict' = Some(get_metrics_dict(results[1]))
    /\ call' = [NoCall EXCEPT !.op = "get_metrics_dict"]
    /\ UNCHANGED <<args, argv, run_description, x, out, results, summaries, stdout,
                   global_step, dataloaders, img_folder, files>>

\* ... and the iteration ends: its local variables are gone
EndStep ==
    /\ call.op = "get_metrics_dict"
    /\ x' = None /\ out' = None /\ results' = None /\ metrics_dict' = None
    /\ call' = NoCall
    /\ UNCHANGED <<args, argv, run_description, summaries, stdout,
                   global_step, dataloaders, img_folder, files>>

Next == ForwardPass \/ GetMetricsDict \/ EndStep

Spec == Init /\ [][Next]_vars

\* C1: for every batch x and every model output whose decoder mean lies strictly
\* inside (0,1), forward_pass returns elbo_sep[i] = log_likelihood[i] - kl[i] for
\* every example i (the Bernoulli log-probability of x[i] summed over channel,
\* height and width, minus the KL of qz against the prior summed over the latent
\* dimension), elbo = the mean of elbo_sep over the batch, and loss = -elbo.
C1_ElboIsLogLikMinusKl ==
    (results # None /\ call.op = "forward_pass") =>
        LET r == results[1]
            xb == x[1]
            mo == out[1]
            N == Len(xb)
            inside == \A i \in 1..N, c \in 1..NChan, h \in 1..Height, w \in 1..Width :
                          0 < mo.mean[i][c][h][w] /\ mo.mean[i][c][h][w] < 4
            ll(i) == SumSeq([c \in 1..NChan |-> SumSeq([h \in 1..Height |->
                         SumSeq([w \in 1..Width |->
                             BernoulliLogProb(mo.mean[i][c][h][w], xb[i][c][h][w])])])])
            klsum(i) == SumSeq([d \in 1..NLatent |->
                                   KlNormal(mo.qz[i].loc[d], mo.qz[i].scale[d])])
        IN inside =>
            /\ Len(r.elbo_sep) = N
            /\ \A i \in 1..N : r.elbo_sep[i] = ll(i) - klsum(i)
            /\ r.elbo.data.den > 0
            /\ r.elbo.data.num * N = SumSeq(r.elbo_sep) * r.elbo.data.den
            /\ r.loss.data.den > 0
            /\ r.loss.data.num * r.elbo.data.den = (0 - r.elbo.data.num) * r.loss.data.den

\* a forward pass over a batch of two examples with different ELBOs and non-zero KL
C1_Witness ==
    /\ results # None
    /\ call.op = "forward_pass"
    /\ Len(x[1]) >= 2
    /\ results[1].elbo_sep[1] # results[1].elbo_sep[2]
    /\ results[1].kl.data.num > 0
    /\ results[1].loss.data.num > 0

\* C9: get_metrics_dict(results) is a pure projection: it returns a mapping with
\* exactly the keys 'loss/loss', 'elbo/elbo', 'elbo/recons', 'elbo/kl' whose values
\* equal results['loss'], results['elbo'], results['recons'], results['kl'], and it
\* leaves results (out_sample, out_mean and elbo_sep included) unchanged.
C9_MetricsIsPureProjection ==
    [][(call.op = "forward_pass" /\ call'.op = "get_metrics_dict") =>
        LET m == metrics_dict'[1]
            r == results[1]
        IN /\ results' = results
           /\ x' = x /\ out' = out
           /\ Len(m) = 4
           /\ {m[i].k : i \in 1..Len(m)} =
                  {<<"l", "o", "s", "s", "/", "l", "o", "s", "s">>, <<"e", "l", "b", "o", "/", "e", "l", "b", "o">>, <<"e", "l", "b", "o", "/", "r", "e", "c", "o", "n", "s">>, <<"e", "l", "b", "o", "/", "k", "l">>}
           /\ Get(m, <<"l", "o", "s", "s", "/", "l", "o", "s", "s">>) = r.loss.data
           /\ Get(m, <<"e", "l", "b", "o", "/", "e", "l", "b", "o">>) = r.elbo.data
           /\ Get(m, <<"e", "l", "b", "o", "/", "r", "e", "c", "o", "n", "s">>) = r.recons.data
           /\ Get(m, <<"e", "l", "b", "o", "/", "k", "l">>) = r.kl.data]_vars

\* metrics were extracted from a result whose four scalars are pairwise different
C9_Witness ==
    /\ call.op = "get_metrics_dict"
    /\ metrics_dict # None
    /\ Get(metrics_dict[1], KeyRecons) # Get(metrics_dict[1], KeyKl)
    /\ Get(metrics_dict[1], KeyLoss) # Get(metrics_dict[1], KeyElbo)
    /\ results[1].elbo_sep # <<>>

\* ---------------------------------------------------------------- log line
\* most importance-weighted entries in one summaries mapping
MaxIW == 2
\* the epoch passed to print_test_log is None or in 0 .. MaxEpoch
MaxEpoch == 1

RECURSIVE NumDigits(_)
NumDigits(n) == IF n < 10 THEN 1 ELSE 1 + NumDigits(n \div 10)

RECURSIVE StripZeros(_)
StripZeros(ds) ==
    IF Len(ds) > 1 /\ ds[Len(ds)] = "0" THEN StripZeros(SubSeq(ds, 1, Len(ds) - 1))
    ELSE ds

\* '{:.<p>g}'.format(v) of a float v with an integer value: at most p
\* significant digits, rounded half to even, scientific from p+1 digits on
FormatG(p, v) ==
    LET a == IF v < 0 THEN 0 - v ELSE v
        sign == IF v < 0 THEN <<"-">> ELSE <<>>
        d == NumDigits(a)
    IN IF d <= p THEN sign \o Digits(a)
       ELSE LET unit == 10 ^ (d - p)
                q0 == a \div unit
                r == a % unit
                q1 == IF 2 * r > unit \/ (2 * r = unit /\ q0 % 2 = 1)
                      THEN q0 + 1 ELSE q0
                carry == q1 = 10 ^ p
                q == IF carry THEN 10 ^ (p - 1) ELSE q1
                e == IF carry THEN d ELSE d - 1
                mant == StripZeros(Digits(q))
            IN sign \o <<Head(mant)>>
                    \o (IF Len(mant) > 1 THEN <<".">> \o Tail(mant) ELSE <<>>)
                    \o <<"e", "+">> \o (IF e < 10 THEN <<"0">> ELSE <<>>) \o Digits(e)

\* variant: k.split('_')[0]
FirstField(k) ==
    IF \E i \in 1..Len(k) : k[i] = "_"
    THEN LET i == CHOOSE i \in 1..Len(k) :
                      k[i] = "_" /\ \A j \in 1..(i - 1) : k[j] # "_"
         IN SubSeq(k, 1, i - 1)
    ELSE k

\* k.split('_')[-1]
LastField(k) ==
    IF \E i \in 1..Len(k) : k[i] = "_"
    THEN LET i == CHOOSE i \in 1..Len(k) :
                      k[i] = "_" /\ \A j \in (i + 1)..Len(k) : k[j] # "_"
         IN SubSeq(k, i + 1, Len(k))
    ELSE k

IsIWKey(k) == Contains(k, <<"e", "l", "b", "o", "_", "I", "W">>)

\* variant: the scan without its break, keeping the last matching key
LastLlKey(summ) ==
    IF \E i \in 1..Len(summ) : IsIWKey(summ[i].k)
    THEN Some(summ[CHOOSE i \in 1..Len(summ) :
                 IsIWKey(summ[i].k) /\ \A j \in (i + 1)..Len(summ) : ~IsIWKey(summ[j].k)].k)
    ELSE None

\* the scan over summaries.keys(): the first key with k.find('elbo_IW') > -1
FindLlKey(summ) ==
    IF \E i \in 1..Len(summ) : IsIWKey(summ[i].k)
    THEN Some(summ[CHOOSE i \in 1..Len(summ) :
                 IsIWKey(summ[i].k) /\ \A j \in 1..(i - 1) : ~IsIWKey(summ[j].k)].k)
    ELSE None

\* the line print_test_log(summaries, step, epoch) prints
print_test_log(summ, step, epoch) ==
    LET prefix == IF epoch # None
                  THEN <<"[", "s", "t", "e", "p", " ">> \o StrOpt(step) \o <<",", " ", "e", "p", "o", "c", "h", " ">> \o StrOpt(epoch) \o <<"]", " ", " ", " ">>
                  ELSE <<>>
        scalars == <<"E", "L", "B", "O", " ">> \o FormatG(5, Get(summ, KeyElbo))
                   \o <<" ", " ", " ", "r", "e", "c", "o", "n", "s", ":", " ">> \o FormatG(3, Get(summ, KeyRecons))
                   \o <<" ", " ", " ", "K", "L", ":", " ">> \o FormatG(3, Get(summ, KeyKl))
        ll_key == FindLlKey(summ)
        marginal == IF ll_key # None
                    THEN <<" ", " ", " ", "m", "a", "r", "g", "i", "n", "a", "l", " ", "l", "o", "g", "-", "l", "i", "k", "e", "l", "i", "h", "o", "o", "d", " ", "(">> \o LastField(ll_key[1])
                         \o <<")", " ">> \o FormatG(5, Get(summ, ll_key[1]))
                    ELSE <<>>
    IN <<" ", " ", " ", " ", " ", " ", " ">> \o prefix \o scalars \o marginal

KeyIW100 == <<"e", "l", "b", "o", "/", "e", "l", "b", "o", "_", "I", "W", "_", "1", "0", "0">>
KeyIW10 == <<"e", "l", "b", "o", "/", "e", "l", "b", "o", "_", "I", "W", "_", "1", "0">>
KeyIW5 == <<"e", "l", "b", "o", "_", "I", "W", "_", "5">>
IWKeys == {KeyIW100, KeyIW10, KeyIW5}

\* the importance-weighted entries of a summaries mapping, in insertion order
IWItems ==
    UNION {{[i \in 1..n |-> [k |-> ks[i], v |-> vs[i]]] :
               ks \in {f \in [1..n -> IWKeys] : \A i, j \in 1..n : f[i] = f[j] => i = j},
               vs \in [1..n -> {0 - 99995, 0 - 999995}]} : n \in 0..MaxIW}

\* the summaries the driver hands to print_test_log
SummariesSet ==
    {IF front THEN iw \o base ELSE base \o iw :
        front \in BOOLEAN,
        iw \in IWItems,
        base \in {<< [k |-> KeyLoss, v |-> 0 - e], [k |-> KeyElbo, v |-> e],
                     [k |-> KeyRecons, v |-> r], [k |-> KeyKl, v |-> kl] >> :
                     e \in {0 - 123456, 0 - 98}, r \in {1005, 87}, kl \in {0, 2515}}}

InitLog == Idle

\* the driver calls print_test_log(summaries, step, epoch)
PrintTestLog ==
    /\ call.op = "none"
    /\ \E summ \in SummariesSet,
          epoch \in {None} \cup {Some(e) : e \in 0..MaxEpoch},
          step \in {None, Some(1000)} :
        /\ summaries' = Some(summ)
        /\ stdout' = <<print_test_log(summ, step, epoch)>>
        /\ call' = [NoCall EXCEPT !.op = "print_test_log",
                                  !.n = IF epoch = None THEN 0 - 1 ELSE epoch[1]]
        /\ UNCHANGED <<args, argv, run_description, x, out, results, metrics_dict,
                       global_step, dataloaders, img_folder, files>>

\* the evaluation ends: the summaries are dropped
EndTest ==
    /\ call.op = "print_test_log"
    /\ summaries' = None
    /\ stdout' = <<>>
    /\ call' = NoCall
    /\ UNCHANGED <<args, argv, run_description, x, out, results, metrics_dict,
                   global_step, dataloaders, img_folder, files>>

NextLog == PrintTestLog \/ EndTest

SpecLog == InitLog /\ [][NextLog]_vars

\* C5: print_test_log prints a line that always contains the ELBO, reconstruction
\* and KL scalars of the summaries; it contains a marginal-log-likelihood segment
\* if and only if the summaries contain a key containing 'elbo_IW'; when that key
\* is the one for K=100 the segment is labelled "100" and carries that key's
\* value; without such a key the segment is omitted entirely.
C5_TestLogLine ==
    call.op = "print_test_log" =>
        LET line == stdout[1]
            s == summaries[1]
            iw == {i \in 1..Len(s) : Contains(s[i].k, <<"e", "l", "b", "o", "_", "I", "W">>)}
        IN /\ Len(stdout) = 1
           /\ Contains(line, <<"E", "L", "B", "O", " ">> \o FormatG(5, Get(s, <<"e", "l", "b", "o", "/", "e", "l", "b", "o">>)))
           /\ Contains(line, <<"r", "e", "c", "o", "n", "s", ":", " ">> \o FormatG(3, Get(s, <<"e", "l", "b", "o", "/", "r", "e", "c", "o", "n", "s">>)))
           /\ Contains(line, <<"K", "L", ":", " ">> \o FormatG(3, Get(s, <<"e", "l", "b", "o", "/", "k", "l">>)))
           /\ (Get(s, <<"e", "l", "b", "o", "/", "e", "l", "b", "o">>) = 0 - 123456 => Contains(line, <<"E", "L", "B", "O", " ", "-", "1", ".", "2", "3", "4", "6", "e", "+", "0", "5", " ", " ", " ">>))
           /\ (Get(s, <<"e", "l", "b", "o", "/", "r", "e", "c", "o", "n", "s">>) = 1005 => Contains(line, <<"r", "e", "c", "o", "n", "s", ":", " ", "1", "e", "+", "0", "3", " ", " ", " ">>))
           /\ (Get(s, <<"e", "l", "b", "o", "/", "k", "l">>) = 2515 => Contains(line, <<"K", "L", ":", " ", "2", ".", "5", "2", "e", "+", "0", "3">>))
           /\ (Contains(line, <<"m", "a", "r", "g", "i", "n", "a", "l", " ", "l", "o", "g", "-", "l", "i", "k", "e", "l", "i", "h", "o", "o", "d">>) <=> iw # {})
           /\ (iw = {} => ~Contains(line, <<"(">>))
           /\ \A i \in iw :
                (s[i].k = <<"e", "l", "b", "o", "/", "e", "l", "b", "o", "_", "I", "W", "_", "1", "0", "0">> /\ \A j \in iw : j >= i) =>
                    /\ Contains(line, <<" ", " ", " ", "m", "a", "r", "g", "i", "n", "a", "l", " ", "l", "o", "g", "-", "l", "i", "k", "e", "l", "i", "h", "o", "o", "d", " ", "(", "1", "0", "0", ")", " ">>
                                          \o FormatG(5, s[i].v))
                    /\ (s[i].v = 0 - 999995 =>
                          Contains(line, <<"m", "a", "r", "g", "i", "n", "a", "l", " ", "l", "o", "g", "-", "l", "i", "k", "e", "l", "i", "h", "o", "o", "d", " ", "(", "1", "0", "0", ")", " ", "-", "1", "e", "+", "0", "6">>))

\* a line was printed for summaries whose importance-weighted key is the K=100 one
C5_Witness ==
    /\ call.op = "print_test_log"
    /\ HasKey(summaries[1], KeyIW100)
    /\ FindLlKey(summaries[1]) = Some(KeyIW100)
    /\ Contains(stdout[1], <<"(", "1", "0", "0", ")">>)

\* C10 as stated: for every key of the summaries that contains 'elbo_IW', the
\* printed line contains that key's value labelled with that key's own sample
\* count (the text after its last underscore).
C10_EveryIWKeySurfaced ==
    call.op = "print_test_log" =>
        \A i \in 1..Len(summaries[1]) :
            Contains(summaries[1][i].k, <<"e", "l", "b", "o", "_", "I", "W">>) =>
                Contains(stdout[1], <<"(">> \o LastField(summaries[1][i].k) \o <<")", " ">>
                                       \o FormatG(5, summaries[1][i].v))

\* C10 as amended: the first key, in iteration order, that contains 'elbo_IW' is
\* printed with its value labelled with its own sample count, and the line holds
\* one marginal-log-likelihood segment only: later such keys are not printed.
C10_FirstIWKeySurfaced ==
    call.op = "print_test_log" =>
        LET s == summaries[1]
            line == stdout[1]
            iw == {i \in 1..Len(s) : Contains(s[i].k, <<"e", "l", "b", "o", "_", "I", "W">>)}
            marks == {p \in 1..(Len(line) - 7) :
                         SubSeq(line, p, p + 7) = <<"m", "a", "r", "g", "i", "n", "a", "l">>}
        IN /\ \A i \in iw :
                (\A j \in iw : j >= i) =>
                    Contains(line, <<" ", " ", " ", "m", "a", "r", "g", "i", "n", "a", "l", " ", "l", "o", "g", "-", "l", "i", "k", "e", "l", "i", "h", "o", "o", "d", " ", "(">> \o LastField(s[i].k)
                                       \o <<")", " ">> \o FormatG(5, s[i].v))
           /\ Cardinality(marks) = IF iw = {} THEN 0 ELSE 1
           /\ \A i \in iw :
                (\E j \in iw : j < i) =>
                    ~Contains(line, <<"(">> \o LastField(s[i].k) \o <<")", " ">>)

\* a line was printed for summaries holding two importance-weighted keys
C10_Witness ==
    /\ call.op = "print_test_log"
    /\ Cardinality({i \in 1..Len(summaries[1]) : IsIWKey(summaries[1][i].k)}) >= 2
    /\ Contains(stdout[1], <<"m", "a", "r", "g", "i", "n", "a", "l">>)

\* ---------------------------------------------------------------- configuration
\* the experiment defaults handed to add_required_args, and '--wd'
DefaultArgs ==
    [batch_size |-> 64,
     test_batch_size |-> 1000,
     lr |-> [num |-> 1, den |-> 1000],
     seed |-> 54321,
     log_interval |-> 1000,
     test_log_interval |-> 1000,
     checkpoint_interval |-> 10000,
     resume |-> <<>>,
     loglik_interval |-> 50000,
     loglik_samples |-> 100,
     weight_decay |-> 0,
     dry_run |-> FALSE,
     additional_descr |-> <<>>]

\* parser.parse_args(): every option given on the command line replaces its default
ParseArgv(cmd) ==
    [DefaultArgs EXCEPT
        !.loglik_interval = IF cmd.ll_every = None THEN @ ELSE cmd.ll_every[1],
        !.test_log_interval =
            IF cmd.test_log_interval = None THEN @ ELSE cmd.test_log_interval[1],
        !.seed = IF cmd.seed = None THEN @ ELSE cmd.seed[1],
        !.additional_descr =
            IF cmd.additional_descr = None THEN @ ELSE cmd.additional_descr[1],
        !.dry_run = cmd.dry_run]

\* variant: the operands of the assertion exchanged
ParseArgsReversed(cmd) ==
    LET parsed == ParseArgv(cmd)
    IN IF parsed.test_log_interval % parsed.loglik_interval = 0
       THEN [error |-> "none", value |-> Some(parsed)]
       ELSE [error |-> "AssertionError", value |-> None]

\* _parse_args(): the parsed namespace, or the failed assertion
parse_args(cmd) ==
    LET parsed == ParseArgv(cmd)
    IN IF parsed.loglik_interval % parsed.test_log_interval = 0
       THEN [error |-> "none", value |-> Some(parsed)]
       ELSE [error |-> "AssertionError", value |-> None]

\* variant: the separator appended even to an empty description
MakeRunDescriptionAlwaysComma(a) ==
    <<"s", "e", "e", "d">> \o Str(a.seed) \o <<",">> \o a.additional_descr

\* _make_run_description(args)
make_run_description(a) ==
    LET s0 == <<>>
        s1 == s0 \o <<"s", "e", "e", "d">> \o Str(a.seed)
    IN IF Len(a.additional_descr) > 0
       THEN s1 \o <<",">> \o a.additional_descr
       ELSE s1

\* the command lines the experiment is started with
ArgvSet ==
    [ll_every : {None, Some(1500), Some(3000), Some(100000)},
     test_log_interval : {None, Some(500), Some(1500), Some(3000)},
     seed : {None, Some(0), Some(7)},
     additional_descr : {None, Some(<<"e", "x", "p", "1">>), Some(<<"a", ",", "b">>)},
     dry_run : BOOLEAN]

InitCfg ==
    /\ argv \in {Some(cmd) : cmd \in ArgvSet}
    /\ args = None
    /\ run_description = None
    /\ x = None
    /\ out = None
    /\ results = None
    /\ metrics_dict = None
    /\ summaries = None
    /\ stdout = <<>>
    /\ global_step = 0
    /\ dataloaders = None
    /\ img_folder = None
    /\ files = <<>>
    /\ call = NoCall

\* the constructor calls _parse_args()
ParseArgs ==
    /\ call.op = "none"
    /\ args' = parse_args(argv[1]).value
    /\ call' = [NoCall EXCEPT !.op = "_parse_args",
                              !.error = parse_args(argv[1]).error]
    /\ UNCHANGED <<argv, run_description, x, out, results, metrics_dict, summaries,
                   stdout, global_step, dataloaders, img_folder, files>>

\* the constructor goes on to _make_run_description(args), unless it has aborted
MakeRunDescription ==
    /\ call.op = "_parse_args"
    /\ call.error = "none"
    /\ run_description' = Some(make_run_description(args[1]))
    /\ call' = [NoCall EXCEPT !.op = "_make_run_description"]
    /\ UNCHANGED <<args, argv, x, out, results, metrics_dict, summaries,
                   stdout, global_step, dataloaders, img_folder, files>>

NextCfg == ParseArgs \/ MakeRunDescription

SpecCfg == InitCfg /\ [][NextCfg]_vars

\* C7: _parse_args enforces that the marginal-log-likelihood evaluation interval
\* is an exact multiple of the test-logging interval: a configuration where it is
\* not aborts and no args are returned; a configuration where it is (the defaults
\* 50000 and 1000 included) is returned as parsed.
C7_IntervalMultipleEnforced ==
    call.op # "none" =>
        LET cmd == argv[1]
            ll == IF cmd.ll_every = None THEN 50000 ELSE cmd.ll_every[1]
            tl == IF cmd.test_log_interval = None THEN 1000
                  ELSE cmd.test_log_interval[1]
            multiple == \E m \in 1..(ll \div tl) : m * tl = ll
        IN /\ ~multiple => (args = None /\ call.error = "AssertionError"
                            /\ run_description = None)
           /\ multiple =>
                /\ args # None
                /\ args[1].loglik_interval = ll
                /\ args[1].test_log_interval = tl
                /\ args[1].dry_run = cmd.dry_run
                /\ args[1].seed = (IF cmd.seed = None THEN 54321 ELSE cmd.seed[1])
                /\ args[1] = ParseArgv(cmd)
           /\ (cmd.ll_every = None /\ cmd.test_log_interval = None) => args # None

\* a configuration whose evaluation interval is no multiple has aborted
C7_Witness ==
    /\ call.op = "_parse_args"
    /\ call.error = "AssertionError"
    /\ args = None
    /\ argv[1].ll_every = Some(1500)
    /\ argv[1].test_log_interval = None

\* C8: _make_run_description(args) returns 'seed' followed by args.seed when the
\* additional description is empty, and that followed by ',' and the description
\* when it is not: seed 54321 gives "seed54321", with tag "exp1" "seed54321,exp1";
\* the result depends on nothing but seed and tag.
C8_RunDescription ==
    run_description # None =>
        LET seed == args[1].seed
            tag == args[1].additional_descr
            rd == run_description[1]
        IN /\ tag = <<>> => rd = <<"s", "e", "e", "d">> \o Str(seed)
           /\ tag # <<>> => rd = <<"s", "e", "e", "d">> \o Str(seed) \o <<",">> \o tag
           /\ (seed = 54321 /\ tag = <<>>) => rd = <<"s", "e", "e", "d", "5", "4", "3", "2", "1">>
           /\ (seed = 54321 /\ tag = <<"e", "x", "p", "1">>) => rd = <<"s", "e", "e", "d", "5", "4", "3", "2", "1", ",", "e", "x", "p", "1">>
           /\ (seed = 7 /\ tag = <<"a", ",", "b">>) => rd = <<"s", "e", "e", "d", "7", ",", "a", ",", "b">>

\* the description of a run with the default seed and the tag exp1
C8_Witness ==
    /\ run_description = Some(<<"s", "e", "e", "d", "5", "4", "3", "2", "1", ",", "e", "x", "p", "1">>)
    /\ call.op = "_make_run_description"

\* ---------------------------------------------------------------- visualization
\* largest batch handed to save_input_and_recons
MaxBatch == 33
\* save_input_and_recons is called with grid sides 2 .. MaxSide
MaxSide == 8
\* global_step runs from 0 to MaxStep
MaxStep == 1
\* sample_prior draws one of the sample sets 0 .. MaxPriorSeed
MaxPriorSeed == 0
\* n = 8 in additional_testing
GridN == 8

\* a batch of N test images [N, C, H, W], pairwise different
TestBatch(N) == [i \in 1..N |-> Img(i - 1)]

\* model.sample_prior(m): m images decoded from prior samples
SamplePrior(m, seed) == [i \in 1..m |-> Img(2 * i + seed)]

\* torch.stack([a, b])
Stack(a, b) == <<a, b>>

\* variant: the permute left out
PermuteForgotten(t0) == t0

\* the one element of a singleton set; {f(v) : v \in {e}} evaluates e once
Only(S) == CHOOSE v \in S : TRUE

\* t.permute(1, 0, 2, 3, 4)
Permute(t0) ==
    Only({[i \in 1..Len(t[1]) |-> [j \in 1..Len(t) |-> t[j][i]]] : t \in {t0}})

\* the number of images in a tensor [A, B, C, H, W]
NumImages(t) == IF t = <<>> THEN 0 ELSE Len(t) * Len(t[1])

\* t.reshape(m, C, H, W) of a tensor [A, B, C, H, W] holding m images
Reshape(t0, m) ==
    Only({[k \in 1..m |-> t[((k - 1) \div Len(t[1])) + 1][((k - 1) % Len(t[1])) + 1]] :
             t \in {t0}})

\* os.path.join(folder, name)
PathJoin(folder, name) ==
    IF folder = <<>> THEN name
    ELSE IF folder[Len(folder)] = "/" THEN folder \o name
    ELSE folder \o <<"/">> \o name

\* save_image(imgs, fname, nrow=n): the file fname now holds the grid
SaveImage(fs, w) ==
    IF HasKey(fs, w.fname)
    THEN [i \in 1..Len(fs) |->
             IF fs[i].k = w.fname THEN [k |-> w.fname, v |-> [imgs |-> w.imgs, nrow |-> w.nrow]]
             ELSE fs[i]]
    ELSE Append(fs, [k |-> w.fname, v |-> [imgs |-> w.imgs, nrow |-> w.nrow]])

RECURSIVE SaveImages(_, _)
SaveImages(fs, ws) ==
    IF ws = <<>> THEN fs ELSE SaveImages(SaveImage(fs, Head(ws)), Tail(ws))

\* variant: x.shape[0] <= n_img
BatchTooSmallOffByOne(size, n_img) == size <= n_img

\* x.shape[0] < n_img
BatchTooSmall(size, n_img) == size < n_img

\* save_input_and_recons(x, fname, n), z being the noise of its model call:
\* the exception raised, whether the forward pass ran, the images written
save_input_and_recons(xb, fname, n, z) ==
    LET n_img == (n * n) \div 2
    IN IF BatchTooSmall(Len(xb), n_img)
       THEN [error |-> "RuntimeError",
             msg |-> Str(n_img) \o <<" ", "d", "a", "t", "a", " ", "p", "o", "i", "n", "t", "s", " ", "r", "e", "q", "u", "i", "r", "e", "d", ",", " ", "b", "u", "t", " ", "g", "i", "v", "e", "n", " ", "b", "a", "t", "c", "h", " ", "h", "a", "s", " ", "s", "i", "z", "e", " ">>
                     \o Str(Len(xb)) \o <<".", " ", "P", "l", "e", "a", "s", "e", " ", "u", "s", "e", " ", "a", " ", "l", "a", "r", "g", "e", "r", " ", "b", "a", "t", "c", "h", ".">>,
             fwd_ran |-> FALSE, out_sample |-> <<>>, writes |-> <<>>]
       ELSE Only({
            LET x1 == SubSeq(xb, 1, n_img)
                recons == SubSeq(outputs.out_sample, 1, n_img)
                imgs == Permute(Stack(x1, recons))
            IN IF NumImages(imgs) # n * n
               THEN [error |-> "RuntimeError",
                     msg |-> <<"s", "h", "a", "p", "e", " ", "'", "[">> \o Str(n * n) \o <<",", " ">> \o Str(NChan) \o <<",", " ">>
                             \o Str(Height) \o <<",", " ">> \o Str(Width)
                             \o <<"]", "'", " ", "i", "s", " ", "i", "n", "v", "a", "l", "i", "d", " ", "f", "o", "r", " ", "i", "n", "p", "u", "t", " ", "o", "f", " ", "s", "i", "z", "e", " ">>
                             \o Str(NumImages(imgs) * NChan * Height * Width),
                     fwd_ran |-> TRUE, out_sample |-> outputs.out_sample,
                     writes |-> <<>>]
               ELSE [error |-> "none", msg |-> <<>>,
                     fwd_ran |-> TRUE, out_sample |-> outputs.out_sample,
                     writes |-> <<[fname |-> fname, imgs |-> Reshape(imgs, n * n),
                                   nrow |-> n]>>]
            : outputs \in {forward_pass(xb, ModelCall(xb, z))}})

\* variant: dry_run ignored
ShouldVisualizeAlways(a) == TRUE

\* if not self.args.dry_run
ShouldVisualize(a) == ~a.dry_run

\* additional_testing(img_folder) at global_step step, the first test batch being
\* xb, seed the draw of sample_prior and z the noise of the model call
additional_testing(a, step, folder, xb, seed, z) ==
    IF ShouldVisualize(a)
    THEN LET n == GridN
             sample == SamplePrior(n * n, seed)
             fname1 == PathJoin(folder, <<"s", "a", "m", "p", "l", "e", "_">> \o Str(step) \o <<".", "p", "n", "g">>)
             fname2 == PathJoin(folder, <<"r", "e", "c", "o", "n", "s", "t", "r", "u", "c", "t", "i", "o", "n", "_">> \o Str(step) \o <<".", "p", "n", "g">>)
             r == save_input_and_recons(xb, fname2, n, z)
         IN [error |-> r.error, msg |-> r.msg, fwd_ran |-> r.fwd_ran,
             out_sample |-> r.out_sample, prior_drawn |-> n * n,
             writes |-> <<[fname |-> fname1, imgs |-> sample, nrow |-> n]>> \o r.writes]
    ELSE [error |-> "none", msg |-> <<>>, fwd_ran |-> FALSE, out_sample |-> <<>>,
          prior_drawn |-> 0, writes |-> <<>>]

FileNames(ws) == [i \in 1..Len(ws) |-> ws[i].fname]

\* ------------------------------------------ direct calls of the grid routine
InitGrid == Idle

\* a caller calls save_input_and_recons(x, fname, n)
SaveInputAndRecons ==
    /\ call.op = "none"
    /\ \E n \in 2..MaxSide, size \in 1..MaxBatch, z \in Noise :
        \E r \in {save_input_and_recons(xb, <<"r", "e", "c", "o", "n", "s", ".", "p", "n", "g">>, n, z) :
                      xb \in {TestBatch(size)}} :
           /\ files' = SaveImages(files, r.writes)
           /\ call' = [op |-> "save_input_and_recons", n |-> n, batch |-> size,
                       fname |-> <<"r", "e", "c", "o", "n", "s", ".", "p", "n", "g">>, error |-> r.error, msg |-> r.msg,
                       fwd_ran |-> r.fwd_ran, prior_drawn |-> 0,
                       writes |-> FileNames(r.writes), out_sample |-> r.out_sample]
           /\ UNCHANGED <<args, argv, run_description, x, out, results, metrics_dict,
                          summaries, stdout, global_step, dataloaders, img_folder>>

\* the call has returned or its exception has been handled
EndCall ==
    /\ call.op \in {"save_input_and_recons", "additional_testing"}
    /\ call' = NoCall
    /\ UNCHANGED <<args, argv, run_description, x, out, results, metrics_dict,
                   summaries, stdout, global_step, dataloaders, img_folder, files>>

NextGrid == SaveInputAndRecons \/ EndCall

SpecGrid == InitGrid /\ [][NextGrid]_vars

\* C2: save_input_and_recons(x, fname, n) fails fast exactly when the batch has
\* fewer than n*n/2 (n ** 2 // 2) examples: with n=8 a batch of exactly 32 examples
\* succeeds and a batch of 31 raises an error whose message names 32 as the
\* required count and 31 as the given batch size; on that error no forward pass
\* is run and no image is written by this call.
C2_FailsFastOnSmallBatch ==
    call.op = "save_input_and_recons" =>
        LET need == (call.n * call.n) \div 2
            failsFast == call.error = "RuntimeError" /\ ~call.fwd_ran
        IN /\ failsFast <=> call.batch < need
           /\ failsFast =>
                /\ call.msg = Str(need)
                                \o <<" ", "d", "a", "t", "a", " ", "p", "o", "i", "n", "t", "s", " ", "r", "e", "q", "u", "i", "r", "e", "d", ",", " ", "b", "u", "t", " ", "g", "i", "v", "e", "n", " ", "b", "a", "t", "c", "h", " ", "h", "a", "s", " ", "s", "i", "z", "e", " ">>
                                \o Str(call.batch) \o <<".", " ", "P", "l", "e", "a", "s", "e", " ", "u", "s", "e", " ", "a", " ", "l", "a", "r", "g", "e", "r", " ", "b", "a", "t", "c", "h", ".">>
                /\ call.writes = <<>>
                /\ call.out_sample = <<>>
           /\ (call.n = 8 /\ call.batch = 32) =>
                /\ call.error = "none"
                /\ call.writes = <<call.fname>>
                /\ Len(Get(files, call.fname).imgs) = 64
           /\ (call.n = 8 /\ call.batch = 31) =>
                /\ call.error = "RuntimeError"
                /\ call.msg = <<"3", "2", " ", "d", "a", "t", "a", " ", "p", "o", "i", "n", "t", "s", " ", "r", "e", "q", "u", "i", "r", "e", "d", ",", " ", "b", "u", "t", " ", "g", "i", "v", "e", "n", " ", "b", "a", "t", "c", "h", " ", "h", "a", "s", " ", "s", "i", "z", "e", " ", "3", "1", ".", " ", "P", "l", "e", "a", "s", "e", " ", "u", "s", "e", " ", "a", " ", "l", "a", "r", "g", "e", "r", " ", "b", "a", "t", "c", "h", ".">>
                /\ ~call.fwd_ran
                /\ call.writes = <<>>

\* the call with n = 8 and 31 examples has raised, nothing written so far
C2_Witness ==
    /\ call.op = "save_input_and_recons"
    /\ call.n = 8
    /\ call.batch = 31
    /\ call.error = "RuntimeError"
    /\ files = <<>>

\* what C4 says of one finished call: one grid of n*n images, n per row, image
\* 2i the input x[i] and image 2i+1 the reconstruction sample of x[i]
C4_GridOfPairs ==
    LET n == call.n
        half == (n * n) \div 2
    IN /\ call.error = "none"
       /\ call.writes = <<call.fname>>
       /\ HasKey(files, call.fname)
       /\ Get(files, call.fname).nrow = n
       /\ Len(Get(files, call.fname).imgs) = n * n
       /\ \A i \in 0..(half - 1) :
            /\ Get(files, call.fname).imgs[2 * i + 1] = Img(i)
            /\ Get(files, call.fname).imgs[2 * i + 2] = call.out_sample[i + 1]

\* C4 as stated: for every grid side n and every batch with at least n*n/2
\* examples, save_input_and_recons writes a single grid of exactly n*n images
\* with n images per row, in which image 2i is input x[i] and image 2i+1 is the
\* reconstruction sample of x[i], for i = 0 .. n*n/2 - 1.
C4_EveryGridSide ==
    (call.op = "save_input_and_recons" /\ call.batch >= (call.n * call.n) \div 2)
        => C4_GridOfPairs

\* C4 as amended: the same for every even grid side n; only the first n*n/2
\* examples of a larger batch are used.
C4_EvenGridSide ==
    (call.op = "save_input_and_recons" /\ call.n % 2 = 0
        /\ call.batch >= (call.n * call.n) \div 2) => C4_GridOfPairs

\* a grid of 16 images was written from a batch larger than the 8 examples used,
\* with reconstructions that differ from their inputs
C4_Witness ==
    /\ call.op = "save_input_and_recons"
    /\ call.n = 4
    /\ call.batch > 8
    /\ call.error = "none"
    /\ HasKey(files, call.fname)
    /\ Get(files, call.fname).imgs[1] # Get(files, call.fname).imgs[2]


\* ------------------------------------------ the evaluation-time hook
\* sizes of the first test batch: one image, one less than the grid of
\* additional_testing needs, exactly what it needs, and the largest batch
TestBatchSizes == {1, (GridN * GridN) \div 2 - 1, (GridN * GridN) \div 2, MaxBatch}

InitVis ==
    /\ args \in {Some([DefaultArgs EXCEPT !.dry_run = d]) : d \in BOOLEAN}
    /\ argv = None
    /\ run_description = None
    /\ x = None
    /\ out = None
    /\ results = None
    /\ metrics_dict = None
    /\ summaries = None
    /\ stdout = <<>>
    /\ global_step = 0
    /\ dataloaders \in {Some([test |-> <<TestBatch(size)>>]) :
                           size \in TestBatchSizes}
    /\ img_folder \in {Some(<<"i", "m", "g">>), Some(<<"o", "u", "t", "/">>)}
    /\ files = <<>>
    /\ call = NoCall

\* one training step of the driver
TrainStep ==
    /\ call.op = "none"
    /\ global_step < MaxStep
    /\ global_step' = global_step + 1
    /\ UNCHANGED <<args, argv, run_description, x, out, results, metrics_dict,
                   summaries, stdout, dataloaders, img_folder, files, call>>

\* the driver calls additional_testing(img_folder)
AdditionalTesting ==
    /\ call.op = "none"
    /\ \E seed \in 0..MaxPriorSeed, z \in Noise :
        \E r \in {additional_testing(args[1], global_step, img_folder[1], xb, seed, z) :
                      xb \in {dataloaders[1].test[1]}} :
           /\ files' = SaveImages(files, r.writes)
           /\ call' = [op |-> "additional_testing", n |-> GridN,
                       batch |-> Len(dataloaders[1].test[1]),
                       fname |-> img_folder[1], error |-> r.error, msg |-> r.msg,
                       fwd_ran |-> r.fwd_ran, prior_drawn |-> r.prior_drawn,
                       writes |-> FileNames(r.writes), out_sample |-> r.out_sample]
           /\ UNCHANGED <<args, argv, run_description, x, out, results, metrics_dict,
                          summaries, stdout, global_step, dataloaders, img_folder>>

NextVis == TrainStep \/ AdditionalTesting \/ EndCall

SpecVis == InitVis /\ [][NextVis]_vars

\* the two artifacts of a visualization event at the current step
SampleName == PathJoin(img_folder[1], <<"s", "a", "m", "p", "l", "e", "_">> \o Str(global_step) \o <<".", "p", "n", "g">>)
ReconstructionName ==
    PathJoin(img_folder[1], <<"r", "e", "c", "o", "n", "s", "t", "r", "u", "c", "t", "i", "o", "n", "_">> \o Str(global_step) \o <<".", "p", "n", "g">>)

\* C3: when the visualization precondition fails during additional_testing
\* (dry_run off, first test batch smaller than 32), the hook aborts with no
\* partial output: neither sample_<step>.png nor reconstruction_<step>.png has
\* been written to the output directory when the error is raised.
C3_NoPartialOutput ==
    (call.op = "additional_testing" /\ ~args[1].dry_run /\ call.batch < 32) =>
        /\ call.error = "RuntimeError"
        /\ ~HasKey(files, SampleName)
        /\ ~HasKey(files, ReconstructionName)

\* C6: additional_testing(img_folder) writes nothing and draws no samples when
\* args.dry_run is set; when dry_run is off and the first test batch has at least
\* 32 examples it writes exactly two artifacts into img_folder, named
\* sample_<step>.png and reconstruction_<step>.png with <step> the model's
\* global_step at the time of the call, the sample grid first and the
\* reconstruction grid second.
C6_DryRunAndArtifacts ==
    /\ args[1].dry_run => files = <<>>
    /\ call.op = "additional_testing" =>
        /\ args[1].dry_run =>
             /\ call.writes = <<>>
             /\ call.prior_drawn = 0
             /\ ~call.fwd_ran
             /\ call.error = "none"
        /\ (~args[1].dry_run /\ call.batch >= 32) =>
             /\ call.error = "none"
             /\ Len(call.writes) = 2
             /\ call.writes[1] =
                  (IF img_folder[1] = <<"i", "m", "g">> THEN <<"i", "m", "g", "/">> ELSE <<"o", "u", "t", "/">>)
                      \o <<"s", "a", "m", "p", "l", "e", "_">> \o Str(global_step) \o <<".", "p", "n", "g">>
             /\ call.writes[2] =
                  (IF img_folder[1] = <<"i", "m", "g">> THEN <<"i", "m", "g", "/">> ELSE <<"o", "u", "t", "/">>)
                      \o <<"r", "e", "c", "o", "n", "s", "t", "r", "u", "c", "t", "i", "o", "n", "_">> \o Str(global_step) \o <<".", "p", "n", "g">>
             /\ (global_step = 1 /\ img_folder[1] = <<"i", "m", "g">>) =>
                  call.writes = <<<<"i", "m", "g", "/", "s", "a", "m", "p", "l", "e", "_", "1", ".", "p", "n", "g">>, <<"i", "m", "g", "/", "r", "e", "c", "o", "n", "s", "t", "r", "u", "c", "t", "i", "o", "n", "_", "1", ".", "p", "n", "g">>>>
             /\ HasKey(files, call.writes[1])
             /\ HasKey(files, call.writes[2])
             /\ Len(Get(files, call.writes[1]).imgs) = 64
             /\ Len(Get(files, call.writes[2]).imgs) = 64
             /\ call.prior_drawn = 64

\* both artifacts of step 1 were written, those of step 0 not
C6_Witness ==
    /\ call.op = "additional_testing"
    /\ ~args[1].dry_run
    /\ global_step = 1
    /\ img_folder[1] = <<"i", "m", "g">>
    /\ Len(files) = 2
    /\ HasKey(files, <<"i", "m", "g", "/", "s", "a", "m", "p", "l", "e", "_", "1", ".", "p", "n", "g">>)
    /\ HasKey(files, <<"i", "m", "g", "/", "r", "e", "c", "o", "n", "s", "t", "r", "u", "c", "t", "i", "o", "n", "_", "1", ".", "p", "n", "g">>)

====
